---- MODULE Spec2Model ----
(***************************************************************************)
(* Model of chemiverse/formula/molecular.py: the MolecularFormula class    *)
(* (construction from symbol- or number-keyed counts, the IUPAC sort, the  *)
(* LaTeX rendering) and the from_counts factory.                           *)
(*                                                                         *)
(* Python values are represented as follows.                               *)
(*   str    a sequence of one-character strings, <<"N", "a">>              *)
(*   dict   a sequence of entries [k |-> key, v |-> value] with distinct   *)
(*          keys, in insertion order                                       *)
(*   float  an integer number of hundredths (2.55 is 255)                  *)
(*   a raised exception  a value [exc |-> "KeyError"] in place of a result *)
(* The text produced by latex is a TLA+ string.                            *)
(***************************************************************************)
EXTENDS Integers, Sequences, FiniteSets, TLC

VARIABLES self, ret, call, origin

vars == <<self, ret, call, origin>>

(***************************************************************************)
(* Bounds of the explored inputs.                                          *)
(***************************************************************************)
MaxLen == 4

MaxKeys == 2

MaxCount == 2

MaxCharge == 2

(***************************************************************************)
(* Python str                                                              *)
(***************************************************************************)
Upper == <<"A","B","C","D","E","F","G","H","I","J","K","L","M",
           "N","O","P","Q","R","S","T","U","V","W","X","Y","Z">>

Lower == <<"a","b","c","d","e","f","g","h","i","j","k","l","m",
           "n","o","p","q","r","s","t","u","v","w","x","y","z">>

Range(s) == {s[i] : i \in 1..Len(s)}

IndexOf(s, c) == CHOOSE i \in 1..Len(s) : s[i] = c

\* ord(c) for the characters keys are written with
Ord(c) ==
  IF c \in Range(Upper) THEN 64 + IndexOf(Upper, c)
  ELSE IF c \in Range(Lower) THEN 96 + IndexOf(Lower, c)
  ELSE 32

IsSpace(c) == c = " "

ToUpper(c) == IF c \in Range(Lower) THEN Upper[IndexOf(Lower, c)] ELSE c

ToLower(c) == IF c \in Range(Upper) THEN Lower[IndexOf(Upper, c)] ELSE c

RECURSIVE lstrip(_)
lstrip(s) == IF s # <<>> /\ IsSpace(Head(s)) THEN lstrip(Tail(s)) ELSE s

RECURSIVE rstrip(_)
rstrip(s) ==
  IF s # <<>> /\ IsSpace(s[Len(s)]) THEN rstrip(SubSeq(s, 1, Len(s) - 1)) ELSE s

\* strip() that forgets the trailing blanks
strip_leading(s) == lstrip(s)

\* str.strip()
strip(s) == rstrip(lstrip(s))

\* str.capitalize()
capitalize(s) ==
  [i \in 1..Len(s) |-> IF i = 1 THEN ToUpper(s[i]) ELSE ToLower(s[i])]

\* the code points of a str
CodePoints(s) == [i \in 1..Len(s) |-> Ord(s[i])]

\* a < b on sequences of numbers: the order of Python's str (by code point)
\* and, on one-element sequences, of its numbers
RECURSIVE SeqLess(_, _)
SeqLess(a, b) ==
  IF b = <<>> THEN FALSE
  ELSE IF a = <<>> THEN TRUE
  ELSE IF Head(a) # Head(b) THEN Head(a) < Head(b)
  ELSE SeqLess(Tail(a), Tail(b))

\* "".join(parts)
RECURSIVE join(_)
join(parts) == IF parts = <<>> THEN "" ELSE Head(parts) \o join(Tail(parts))

(***************************************************************************)
(* Python dict: entries [k |-> key, v |-> value] in insertion order        *)
(***************************************************************************)
Keys(d) == [i \in 1..Len(d) |-> d[i].k]

\* k in d
HasKey(d, k) == \E i \in 1..Len(d) : d[i].k = k

\* d[k], for a key that is in d
Get(d, k) == d[CHOOSE i \in 1..Len(d) : d[i].k = k].v

\* d[k] = v: a present key keeps its position, a new key goes last
Set(d, k, v) ==
  IF HasKey(d, k)
  THEN [i \in 1..Len(d) |-> IF d[i].k = k THEN [k |-> k, v |-> v] ELSE d[i]]
  ELSE Append(d, [k |-> k, v |-> v])

(***************************************************************************)
(* Python sorted(): keys are computed first, then a stable sort by key     *)
(***************************************************************************)
\* an insertion that is not stable: an item goes before the items of equal key
RECURSIVE InsertBeforeEqual(_, _)
InsertBeforeEqual(p, s) ==
  IF s = <<>> THEN <<p>>
  ELSE IF ~SeqLess(Head(s).key, p.key) THEN <<p>> \o s
  ELSE <<Head(s)>> \o InsertBeforeEqual(p, Tail(s))

RECURSIVE InsertSorted(_, _)
InsertSorted(p, s) ==
  IF s = <<>> THEN <<p>>
  ELSE IF SeqLess(p.key, Head(s).key) THEN <<p>> \o s
  ELSE <<Head(s)>> \o InsertSorted(p, Tail(s))

RECURSIVE StableSort(_, _)
StableSort(done, rest) ==
  IF rest = <<>> THEN done
  ELSE StableSort(InsertSorted(Head(rest), done), Tail(rest))

\* sorted(xs) and sorted(xs, key=...), keys being the key of each item
sorted(xs, keys) ==
  LET ps == [i \in 1..Len(xs) |-> [key |-> keys[i], val |-> xs[i]]]
      ss == StableSort(<<>>, ps)
  IN  [i \in 1..Len(ss) |-> ss[i].val]

(***************************************************************************)
(* The periodic table: the rows of scicoda.atom.periodic_table() for six   *)
(* elements, with the Pauling electronegativity in hundredths.             *)
(***************************************************************************)
NaN == -1

Inf == 100000

PERIODIC_TABLE ==
  << [z |-> 1,  symbol |-> <<"H">>,      en_pauling |-> 220],
     [z |-> 2,  symbol |-> <<"H", "e">>, en_pauling |-> NaN],
     [z |-> 6,  symbol |-> <<"C">>,      en_pauling |-> 255],
     [z |-> 10, symbol |-> <<"N", "e">>, en_pauling |-> NaN],
     [z |-> 14, symbol |-> <<"S", "i">>, en_pauling |-> 190],
     [z |-> 29, symbol |-> <<"C", "u">>, en_pauling |-> 190] >>

Z_TO_SYMBOL ==
  [i \in 1..Len(PERIODIC_TABLE) |->
     [k |-> PERIODIC_TABLE[i].z, v |-> PERIODIC_TABLE[i].symbol]]

SYMBOL_TO_Z ==
  [i \in 1..Len(PERIODIC_TABLE) |->
     [k |-> PERIODIC_TABLE[i].symbol, v |-> PERIODIC_TABLE[i].z]]

Z_TO_EN ==
  [i \in 1..Len(PERIODIC_TABLE) |->
     [k |-> PERIODIC_TABLE[i].z, v |-> PERIODIC_TABLE[i].en_pauling]]

(***************************************************************************)
(* Values: keys of the caller's mapping, objects, outcomes of a call       *)
(***************************************************************************)
IntKey(n) == [t |-> "int", n |-> n, s |-> <<>>]

StrKey(s) == [t |-> "str", n |-> 0, s |-> s]

FloatKey == [t |-> "float", n |-> 0, s |-> <<>>]

NoObj == [z_to_count |-> <<>>, symbol_to_count |-> <<>>, charge |-> 0]

NoResult == [kind |-> "none", obj |-> NoObj, exc |-> "", text |-> ""]

Returned(obj) == [kind |-> "obj", obj |-> obj, exc |-> "", text |-> ""]

Raised(e) == [kind |-> "exc", obj |-> NoObj, exc |-> e, text |-> ""]

ReturnedText(t) == [kind |-> "str", obj |-> NoObj, exc |-> "", text |-> t]

(***************************************************************************)
(* MolecularFormula.__init__                                               *)
(***************************************************************************)
\* a loop body that skips the keys it cannot resolve instead of raising
InitItemSkipUnknown(acc, key, count) ==
  IF key.t = "int" /\ HasKey(Z_TO_SYMBOL, key.n)
  THEN [exc |-> "",
        z_to_count |-> Set(acc.z_to_count, key.n, count),
        symbol_to_count |-> Set(acc.symbol_to_count, Get(Z_TO_SYMBOL, key.n), count)]
  ELSE IF key.t = "str" /\ HasKey(SYMBOL_TO_Z, capitalize(rstrip(lstrip(key.s))))
  THEN LET symbol == capitalize(rstrip(lstrip(key.s))) IN
       [exc |-> "",
        z_to_count |-> Set(acc.z_to_count, Get(SYMBOL_TO_Z, symbol), count),
        symbol_to_count |-> Set(acc.symbol_to_count, symbol, count)]
  ELSE acc

\* the body of the loop for one item, on the two dicts built so far
InitItem(acc, key, count) ==
  IF key.t = "int" THEN
    IF HasKey(Z_TO_SYMBOL, key.n)
    THEN [exc |-> "",
          z_to_count |-> Set(acc.z_to_count, key.n, count),
          symbol_to_count |->
            Set(acc.symbol_to_count, Get(Z_TO_SYMBOL, key.n), count)]
    ELSE [acc EXCEPT !.exc = "KeyError"]
  ELSE IF key.t = "str" THEN
    LET symbol == capitalize(strip(key.s)) IN
    IF HasKey(SYMBOL_TO_Z, symbol)
    THEN [exc |-> "",
          z_to_count |-> Set(acc.z_to_count, Get(SYMBOL_TO_Z, symbol), count),
          symbol_to_count |-> Set(acc.symbol_to_count, symbol, count)]
    ELSE [acc EXCEPT !.exc = "KeyError"]
  ELSE [acc EXCEPT !.exc = "TypeError"]

RECURSIVE InitLoop(_, _)
InitLoop(acc, items) ==
  IF acc.exc # "" \/ items = <<>> THEN acc
  ELSE InitLoop(InitItem(acc, Head(items).k, Head(items).v), Tail(items))

\* MolecularFormula(atom_count, charge)
MolecularFormula(atom_count, charge) ==
  LET acc == InitLoop([exc |-> "", z_to_count |-> <<>>, symbol_to_count |-> <<>>],
                      atom_count)
  IN  IF acc.exc # "" THEN Raised(acc.exc)
      ELSE Returned([z_to_count |-> acc.z_to_count,
                     symbol_to_count |-> acc.symbol_to_count,
                     charge |-> charge])

(***************************************************************************)
(* MolecularFormula.latex                                                  *)
(***************************************************************************)
\* the glyph of the literal that ends a negative charge, in ASCII
MinusGlyph == "--"

\* the text of a str
RECURSIVE Text(_)
Text(s) == IF s = <<>> THEN "" ELSE Head(s) \o Text(Tail(s))

\* abs(n)
abs(n) == IF n < 0 THEN -n ELSE n

\* the part appended for one item of _symbol_to_count
ElementPart(symbol, count) ==
  IF count = 1 THEN Text(symbol)
  ELSE Text(symbol) \o "\\textsubscript{" \o ToString(count) \o "}"

\* a charge part that writes the magnitude 1 too
ChargePartWithOne(charge) ==
  "\\textsuperscript{" \o ToString(abs(charge))
    \o (IF charge > 0 THEN "+" ELSE MinusGlyph) \o "}"

\* the part appended for a nonzero charge
ChargePart(charge) ==
  LET abs_charge == abs(charge)
      charge_str == IF abs_charge # 1 THEN ToString(abs_charge) ELSE ""
  IN  "\\textsuperscript{" \o charge_str
        \o (IF charge > 0 THEN "+" ELSE MinusGlyph) \o "}"

latex(f) ==
  LET counts == f.symbol_to_count
      parts == [i \in 1..Len(counts) |-> ElementPart(counts[i].k, counts[i].v)]
  IN  join(IF f.charge # 0 THEN Append(parts, ChargePart(f.charge)) ELSE parts)

(***************************************************************************)
(* MolecularFormula.sort and MolecularFormula._sort_iupac                  *)
(***************************************************************************)
\* pd.isna(en)
isna(en) == en = NaN

\* a sort key that passes NaN on
en_sorter_raw(symbol) == Get(Z_TO_EN, Get(SYMBOL_TO_Z, symbol))

en_sorter(symbol) ==
  LET z == Get(SYMBOL_TO_Z, symbol)
      en == Get(Z_TO_EN, z)
  IN  IF isna(en) THEN Inf ELSE en

\* a list that leaves the elements after C and H in insertion order
SortedElementsRestUnsorted(counts) ==
  IF HasKey(counts, <<"C">>)
  THEN <<(<<"C">>), (<<"H">>)>>
         \o SelectSeq(Keys(counts), LAMBDA e : e \notin {<<"C">>, <<"H">>})
  ELSE sorted(Keys(counts),
              [i \in 1..Len(counts) |-> <<en_sorter(Keys(counts)[i])>>])

\* the list sorted_elements
SortedElements(counts) ==
  LET C == <<"C">>
      H == <<"H">>
      keys == Keys(counts)
  IN  IF HasKey(counts, C)
      THEN LET rest == SelectSeq(keys, LAMBDA e : e \notin {C, H})
           IN  <<C, H>> \o sorted(rest, [i \in 1..Len(rest) |-> CodePoints(rest[i])])
      ELSE sorted(keys, [i \in 1..Len(keys) |-> <<en_sorter(keys[i])>>])

\* a sort that does not pass the charge on
sort_iupac_no_charge(f) ==
  LET counts == f.symbol_to_count
      sorted_elements == SortedElements(counts)
  IN  IF \E i \in 1..Len(sorted_elements) : ~HasKey(counts, sorted_elements[i])
      THEN Raised("KeyError")
      ELSE MolecularFormula(
             [i \in 1..Len(sorted_elements) |->
                [k |-> StrKey(sorted_elements[i]),
                 v |-> Get(counts, sorted_elements[i])]],
             0)

sort_iupac(f) ==
  LET counts == f.symbol_to_count
      sorted_elements == SortedElements(counts)
  IN  IF \E i \in 1..Len(sorted_elements) : ~HasKey(counts, sorted_elements[i])
      THEN Raised("KeyError")
      ELSE MolecularFormula(
             [i \in 1..Len(sorted_elements) |->
                [k |-> StrKey(sorted_elements[i]),
                 v |-> Get(counts, sorted_elements[i])]],
             f.charge)

\* a sort that falls back to "iupac" for a method it does not know
sort_any_method(f, method) == sort_iupac(f)

\* f.sort(method): what the call returns or raises
sort(f, method) ==
  IF method = "iupac" THEN sort_iupac(f) ELSE Raised("ValueError")

\* f.sort(method): the receiver after the call; no statement of sort or of
\* _sort_iupac assigns to self or to the dicts it holds
SelfAfterSort(f, method) == f

(***************************************************************************)
(* from_counts                                                             *)
(***************************************************************************)
None == "<None>"

\* the truth value of the sort argument in "if sort:"
Truthy(x) == x # None /\ x # ""

from_counts(counts, charge, sortarg) ==
  LET formula == MolecularFormula(counts, charge)
  IN  IF formula.kind = "exc" THEN formula
      ELSE IF Truthy(sortarg) THEN sort(formula.obj, sortarg)
      ELSE formula

(***************************************************************************)
(* The mappings, charges and sort arguments that callers pass              *)
(***************************************************************************)
\* the ways a caller writes an element's symbol other than the table's
Written(z) ==
  CASE z = 1  -> <<"h">>
    [] z = 2  -> <<"H", "E">>
    [] z = 6  -> <<" ", "c">>
    [] z = 10 -> <<"n", "e", " ">>
    [] z = 14 -> <<" ", "s", "I", " ">>
    [] z = 29 -> <<"c", "U">>

Elements == Range(PERIODIC_TABLE)

\* the three key forms of an element
KeyForms(e) == {IntKey(e.z), StrKey(e.symbol), StrKey(Written(e.z))}

\* one key per element, some numbers and some symbols
MixedKey(e) ==
  IF e.z \in {1, 10} THEN IntKey(e.z)
  ELSE IF e.z \in {2, 14} THEN StrKey(Written(e.z))
  ELSE StrKey(e.symbol)

MixedKeys == {MixedKey(e) : e \in Elements}

\* keys that name no element, and a key of another type
BadKeys == {IntKey(9999), StrKey(<<"X", "x">>), FloatKey}

\* every form of three elements, and the keys that fail
AllKeys == UNION {KeyForms(e) : e \in {x \in Elements : x.z \in {1, 6, 14}}} \cup BadKeys

\* the keys of the mappings whose counts and charge vary
CountKeys == {MixedKey(e) : e \in {x \in Elements : x.z \in {1, 2, 6, 14}}}

\* the sequences of at most n distinct members of S
DistinctSeqs(S, n) ==
  UNION {{q \in [1..k -> S] : \A i, j \in 1..k : i # j => q[i] # q[j]} : k \in 0..n}

\* the mapping with keys q whose i-th count is 1, 2, .., MaxCount, 1, ..
Numbered(q) == [i \in 1..Len(q) |-> [k |-> q[i], v |-> ((i - 1) % MaxCount) + 1]]

Charges == (0 - MaxCharge)..MaxCharge

\* mappings of up to MaxLen elements in every insertion order
OrderInputs ==
  {[atom_count |-> Numbered(q), charge |-> 0] : q \in DistinctSeqs(MixedKeys, MaxLen)}

\* mappings of up to MaxKeys elements with every count and charge
CountInputs ==
  UNION {{[atom_count |-> [i \in 1..Len(q) |-> [k |-> q[i], v |-> c[i]]],
           charge |-> ch] : c \in [1..Len(q) -> 1..MaxCount], ch \in Charges}
         : q \in DistinctSeqs(CountKeys, MaxKeys)}

\* mappings of up to MaxKeys keys of every form, valid or not
KeyInputs ==
  {[atom_count |-> Numbered(q), charge |-> 0] : q \in DistinctSeqs(AllKeys, MaxKeys)}

Inputs == OrderInputs \cup CountInputs \cup KeyInputs

SortMethods == {"iupac", "alpha", ""}

SortArgs == SortMethods \cup {None}

(***************************************************************************)
(* The state: the formula the caller holds (self, bound or not as origin   *)
(* says), the outcome of the last call (ret) and the call itself.          *)
(***************************************************************************)
NoCall == [op |-> "none", atom_count |-> <<>>, charge |-> 0, method |-> None]

Init ==
  /\ self = NoObj
  /\ ret = NoResult
  /\ call = NoCall
  /\ origin = "unbound"

\* f = MolecularFormula(atom_count, charge)
Construct ==
  /\ call.op = "none"
  /\ \E in \in Inputs :
       LET r == MolecularFormula(in.atom_count, in.charge) IN
         /\ ret' = r
         /\ self' = r.obj
         /\ origin' = IF r.kind = "obj" THEN "init" ELSE "unbound"
         /\ call' = [op |-> "init", atom_count |-> in.atom_count,
                     charge |-> in.charge, method |-> None]

\* f = from_counts(counts, charge, sort)
FromCounts ==
  /\ call.op = "none"
  /\ \E in \in OrderInputs \cup KeyInputs, sortarg \in SortArgs :
       LET r == from_counts(in.atom_count, in.charge, sortarg) IN
         /\ ret' = r
         /\ self' = r.obj
         /\ origin' = IF r.kind # "obj" THEN "unbound"
                      ELSE IF Truthy(sortarg) THEN "sort" ELSE "init"
         /\ call' = [op |-> "from_counts", atom_count |-> in.atom_count,
                     charge |-> in.charge, method |-> sortarg]

\* f.sort(method)
Sort(method) ==
  /\ origin # "unbound"
  /\ ret' = sort(self, method)
  /\ self' = SelfAfterSort(self, method)
  /\ call' = [NoCall EXCEPT !.op = "sort", !.method = method]
  /\ UNCHANGED origin

\* f.latex
Latex ==
  /\ origin # "unbound"
  /\ ret' = ReturnedText(latex(self))
  /\ call' = [NoCall EXCEPT !.op = "latex"]
  /\ UNCHANGED <<self, origin>>

\* the caller goes on with the formula that sort returned, as in
\* formula = formula.sort(method)
Rebind ==
  /\ call.op = "sort"
  /\ ret.kind = "obj"
  /\ self' = ret.obj
  /\ origin' = "sort"
  /\ ret' = NoResult
  /\ call' = [NoCall EXCEPT !.op = "rebind"]

Next ==
  \/ Construct
  \/ FromCounts
  \/ \E method \in SortMethods : Sort(method)
  \/ Latex
  \/ Rebind

Spec == Init /\ [][Next]_vars

(***************************************************************************)
(* Vocabulary of the properties, stated from the periodic table and not    *)
(* from the operators above.                                               *)
(***************************************************************************)
Carbon == <<"C">>

Hydrogen == <<"H">>

\* the symbols of the table in alphabetical order
Alphabetical ==
  << <<"C">>, <<"C", "u">>, <<"H">>, <<"H", "e">>, <<"N", "e">>, <<"S", "i">> >>

AlphaRank(symbol) == CHOOSE i \in 1..Len(Alphabetical) : Alphabetical[i] = symbol

Row(symbol) == CHOOSE e \in Elements : e.symbol = symbol

HasEN(symbol) == Row(symbol).en_pauling # NaN

Pauling(symbol) == Row(symbol).en_pauling

\* the composition order of a formula
Order(f) == Keys(f.symbol_to_count)

Pos(f, symbol) == CHOOSE i \in 1..Len(Order(f)) : Order(f)[i] = symbol

Contains(f, symbol) == symbol \in Range(Order(f))

\* the (element, count) pairs of a formula, by symbol and by atomic number
Pairs(f) == Range(f.symbol_to_count)

NumberPairs(f) == Range(f.z_to_count)

\* g holds the elements of f, each once, with the counts and charge of f
SameComposition(g, f) ==
  /\ Pairs(g) = Pairs(f)
  /\ NumberPairs(g) = NumberPairs(f)
  /\ Len(g.symbol_to_count) = Len(f.symbol_to_count)
  /\ Len(g.z_to_count) = Len(f.z_to_count)
  /\ g.charge = f.charge

\* the last call was self.sort("iupac")
SortedIupac == call.op = "sort" /\ call.method = "iupac"

\* q[from..] is in strictly ascending alphabetical order
AlphabeticalFrom(q, from) ==
  \A i, j \in from..Len(q) : i < j => AlphaRank(q[i]) < AlphaRank(q[j])

(***************************************************************************)
(* C1: sort("iupac") on a formula with carbon and without hydrogen returns *)
(* a formula ordered carbon first, then the other elements in ascending    *)
(* alphabetical order, with no hydrogen entry and no error.                *)
(***************************************************************************)
C1_CarbonWithoutHydrogen ==
  (SortedIupac /\ Contains(self, Carbon) /\ ~Contains(self, Hydrogen)) =>
    /\ ret.kind = "obj"
    /\ SameComposition(ret.obj, self)
    /\ Order(ret.obj)[1] = Carbon
    /\ AlphabeticalFrom(Order(ret.obj), 2)
    /\ ~Contains(ret.obj, Hydrogen)

(***************************************************************************)
(* C2: sort("iupac") on a formula with carbon and hydrogen returns the     *)
(* order carbon, hydrogen, then the other elements in ascending            *)
(* alphabetical order of symbol, whatever the insertion order was.         *)
(***************************************************************************)
C2_CarbonHydrogenOrder ==
  (SortedIupac /\ Contains(self, Carbon) /\ Contains(self, Hydrogen)) =>
    /\ ret.kind = "obj"
    /\ Range(Order(ret.obj)) = Range(Order(self))
    /\ Len(Order(ret.obj)) = Len(Order(self))
    /\ Order(ret.obj)[1] = Carbon
    /\ Order(ret.obj)[2] = Hydrogen
    /\ AlphabeticalFrom(Order(ret.obj), 3)

C2_Witness ==
  /\ SortedIupac
  /\ ret.kind = "obj"
  /\ Len(Order(self)) >= 4
  /\ Order(self)[Len(Order(self))] = Carbon
  /\ Order(self)[Len(Order(self)) - 1] = Hydrogen
  /\ ~AlphabeticalFrom(Order(self), 1)
  /\ Order(ret.obj)[2] = Hydrogen

(***************************************************************************)
(* C3: sort("iupac") on a formula without carbon returns the elements in   *)
(* ascending Pauling electronegativity; every element with an undefined    *)
(* value comes after every element with a defined one; elements with equal *)
(* or both undefined values keep the order they had in the receiver.       *)
(***************************************************************************)
SameEN(a, b) ==
  \/ ~HasEN(a) /\ ~HasEN(b)
  \/ HasEN(a) /\ HasEN(b) /\ Pauling(a) = Pauling(b)

C3_ElectronegativityOrder ==
  (SortedIupac /\ ~Contains(self, Carbon)) =>
    /\ ret.kind = "obj"
    /\ Range(Order(ret.obj)) = Range(Order(self))
    /\ Len(Order(ret.obj)) = Len(Order(self))
    /\ \A i, j \in 1..Len(Order(ret.obj)) :
         i < j =>
           LET a == Order(ret.obj)[i]
               b == Order(ret.obj)[j]
           IN  /\ (HasEN(a) /\ HasEN(b)) => Pauling(a) <= Pauling(b)
               /\ ~(~HasEN(a) /\ HasEN(b))
               /\ SameEN(a, b) => Pos(self, a) < Pos(self, b)

C3_Witness ==
  /\ SortedIupac
  /\ ret.kind = "obj"
  /\ ~Contains(self, Carbon)
  /\ Order(self) = << <<"N", "e">>, <<"S", "i">>, <<"H", "e">>, <<"C", "u">> >>
  /\ Order(ret.obj) = << <<"S", "i">>, <<"C", "u">>, <<"N", "e">>, <<"H", "e">> >>

(***************************************************************************)
(* C4: every successful sort returns a formula with the same (element,     *)
(* count) pairs and the same charge as its receiver, and no sort call      *)
(* changes its receiver; this holds along any sequence of sort calls.      *)
(***************************************************************************)
C4_SortPreservesComposition ==
  [][call'.op = "sort" =>
       /\ self' = self
       /\ ret'.kind = "obj" => SameComposition(ret'.obj, self)]_vars

C4_Witness ==
  /\ SortedIupac
  /\ ret.kind = "obj"
  /\ origin = "init"
  /\ Order(ret.obj) # Order(self)
  /\ self.charge # 0
  /\ \E p, q \in Pairs(self) : p.v # q.v

(***************************************************************************)
(* C5: sorting is idempotent: sort("iupac") on a formula that              *)
(* sort("iupac") returned succeeds and returns the same composition order, *)
(* counts and rendering.                                                   *)
(***************************************************************************)
C5_SortIdempotent ==
  (SortedIupac /\ origin = "sort") =>
    /\ ret.kind = "obj"
    /\ ret.obj.symbol_to_count = self.symbol_to_count
    /\ ret.obj.z_to_count = self.z_to_count
    /\ latex(ret.obj) = latex(self)

C5_Witness ==
  /\ SortedIupac
  /\ origin = "sort"
  /\ ret.kind = "obj"
  /\ Contains(self, <<"S", "i">>)
  /\ Contains(self, <<"C", "u">>)
  /\ Contains(self, <<"N", "e">>)
  /\ Contains(self, <<"H", "e">>)

(***************************************************************************)
(* C6: mappings that name the same elements entry by entry, by symbol, by  *)
(* atomic number or by a mix of both, with the same counts and charge,     *)
(* construct formulas with the same composition order, counts and          *)
(* rendering, and sort("iupac") has the same outcome on them.              *)
(***************************************************************************)
\* the keys that name the element a valid key names
FormsOf(key) == UNION {KeyForms(e) : e \in {x \in Elements : key \in KeyForms(x)}}

IsValidKey(key) == FormsOf(key) # {}

\* the mappings that name, entry by entry, the elements and counts of m
RECURSIVE Rewritten(_)
Rewritten(m) ==
  IF m = <<>> THEN {<<>>}
  ELSE {<<[k |-> key, v |-> Head(m).v]>> \o rest :
          key \in FormsOf(Head(m).k), rest \in Rewritten(Tail(m))}

\* the element a valid key names
Named(key) == CHOOSE e \in Elements : key \in KeyForms(e)

\* m keyed by atomic number throughout, and by table symbol throughout
ByNumber(m) == [i \in 1..Len(m) |-> [k |-> IntKey(Named(m[i].k).z), v |-> m[i].v]]

BySymbol(m) == [i \in 1..Len(m) |-> [k |-> StrKey(Named(m[i].k).symbol), v |-> m[i].v]]

\* the rewritings of m that are mappings (no key twice): every mix of key
\* forms for up to MaxKeys entries, the two uniform keyings for more
SameEntries(m) ==
  {a \in (IF Len(m) <= MaxKeys THEN Rewritten(m) ELSE {ByNumber(m), BySymbol(m)}) :
     \A i, j \in 1..Len(a) : i # j => a[i].k # a[j].k}

C6_KeyFormsEquivalent ==
  (call.op = "init"
     /\ \A i \in 1..Len(call.atom_count) : IsValidKey(call.atom_count[i].k)) =>
    LET rendered == latex(ret.obj)
        resorted == sort(ret.obj, "iupac")
    IN  /\ ret.kind = "obj"
        /\ \A a \in SameEntries(call.atom_count) :
             LET other == MolecularFormula(a, call.charge) IN
               /\ other = ret
               /\ latex(other.obj) = rendered
               /\ sort(other.obj, "iupac") = resorted

C6_Witness ==
  /\ call.op = "init"
  /\ ret.kind = "obj"
  /\ Len(call.atom_count) = 2
  /\ call.atom_count[1].k = StrKey(<<" ", "s", "I", " ">>)
  /\ call.atom_count[2].k = IntKey(6)
  /\ Order(ret.obj) = << <<"S", "i">>, <<"C">> >>

(***************************************************************************)
(* C7: latex is the concatenation, in the current composition order, of    *)
(* each symbol followed by a subscript span with its count unless the      *)
(* count is 1, then, only for a nonzero charge, one superscript span with  *)
(* the absolute charge (omitted when 1) and the sign glyph; it reorders    *)
(* nothing.                                                                *)
(***************************************************************************)
Digits(n) == ToString(n)

RECURSIVE ElementsMarkup(_)
ElementsMarkup(counts) ==
  IF counts = <<>> THEN ""
  ELSE LET symbol == Text(Head(counts).k)
           count == Head(counts).v
       IN  (IF count = 1 THEN symbol
            ELSE symbol \o "\\textsubscript{" \o Digits(count) \o "}")
             \o ElementsMarkup(Tail(counts))

ChargeMarkup(charge) ==
  CASE charge = 0  -> ""
    [] charge = 1  -> "\\textsuperscript{+}"
    [] charge = -1 -> "\\textsuperscript{" \o MinusGlyph \o "}"
    [] charge > 1  -> "\\textsuperscript{" \o Digits(charge) \o "+}"
    [] charge < -1 -> "\\textsuperscript{" \o Digits(0 - charge) \o MinusGlyph \o "}"

C8_InvalidSortMethod ==
  [][(call'.op = "sort" /\ call'.method # "iupac") =>
       /\ ret' = Raised("ValueError")
       /\ self' = self
       /\ origin' = origin]_vars

C8_Witness ==
  /\ call.op = "sort"
  /\ call.method = "alpha"
  /\ ret.exc = "ValueError"
  /\ Len(Order(self)) >= 2
  /\ Order(self)[1] = Hydrogen

(***************************************************************************)
(* C9: construction from a mapping with an invalid key raises and binds no *)
(* formula, wherever the key sits: the error is the invalid-key-type error *)
(* for a key that is neither an integer nor a string and the               *)
(* unknown-element error for an integer or symbol the table lacks; the     *)
(* first invalid key in the mapping's order decides.                       *)
(***************************************************************************)
ErrorOf(key) == IF key.t \in {"int", "str"} THEN "KeyError" ELSE "TypeError"

FirstInvalid(m) == CHOOSE i \in 1..Len(m) :
  /\ ~IsValidKey(m[i].k)
  /\ \A j \in 1..(i - 1) : IsValidKey(m[j].k)

C9_InvalidKeyFails ==
  (call.op = "init" /\ \E i \in 1..Len(call.atom_count) : ~IsValidKey(call.atom_count[i].k)) =>
    /\ ret = Raised(ErrorOf(call.atom_count[FirstInvalid(call.atom_count)].k))
    /\ origin = "unbound"
    /\ self = NoObj

C9_Witness ==
  /\ call.op = "init"
  /\ Len(call.atom_count) = 2
  /\ IsValidKey(call.atom_count[1].k)
  /\ call.atom_count[2].k = FloatKey
  /\ ret.exc = "TypeError"

(***************************************************************************)
(* C10: from_counts with a sort method has the outcome of constructing the *)
(* formula and calling sort with that method; with no sort requested       *)
(* (None) it returns the constructed formula in the mapping's order.       *)
(***************************************************************************)
ConstructThenSort(counts, charge, method) ==
  LET constructed == MolecularFormula(counts, charge)
  IN  IF constructed.kind = "exc" THEN constructed
      ELSE sort(constructed.obj, method)

C10_FromCountsComposes ==
  call.op = "from_counts" =>
    ret = IF call.method = None
          THEN MolecularFormula(call.atom_count, call.charge)
          ELSE ConstructThenSort(call.atom_count, call.charge, call.method)

====
